---- MODULE Spec2Model ----
(***************************************************************************)
(* A model of adb_graphics/utils.py: the line-labelling routines           *)
(* label_line and label_lines, the forecast-hour helper fhr_list and the   *)
(* file-age test old_enough; and of skewT.atmo_profiles in                 *)
(* adb_graphics/figures/skewt.py.                                          *)
(*                                                                         *)
(* Python sequences are 0-based, TLA+ sequences 1-based: the Python        *)
(* element seq[i] (0 <= i) is the TLA+ element seq[i + 1].                 *)
(* A keyword-argument mapping is a function from key strings to values.   *)
(* Angles are whole degrees: the polylines live on the unit grid Coords,   *)
(* where every tangent is a multiple of 45 degrees and atan2 is exact.     *)
(***************************************************************************)
EXTENDS Integers, Sequences, FiniteSets

VARIABLES
    texts,      \* ax.texts: the text boxes drawn on the axis so far
    transData,  \* ax.transData: the data -> screen transform of the axis
    segment,    \* label_line driver: the polyline argument
    label,      \* label_line driver: the label argument
    kwargs,     \* the caller's keyword-argument mapping
    frame,      \* the locals of the last label_line call, as it left them
    err,        \* the exception the last call raised, "none" if it returned
    calls,      \* label_line driver: number of calls made
    lines,      \* label_lines: lines.get_segments()
    labels,     \* label_lines: the labels argument
    offset,     \* label_lines: the offset argument
    lkw,        \* label_lines: its local kwargs dict
    i,          \* label_lines: loop index
    pc,         \* position of the call in progress
    args,       \* fhr_list: the argument
    result,     \* fhr_list: the returned list
    age,        \* old_enough: the age argument, in minutes
    fileTime,   \* old_enough: the file's ctime, in minutes
    now,        \* old_enough: dt.datetime.now(), in minutes
    old,        \* old_enough: the returned bool
    pres,       \* skewT: the pressure profile self.values('pres'), in Pa
    maxPlev,    \* skewT: self.max_plev, in hPa
    atmo        \* skewT: the profiles atmo_profiles returns, per variable

vars == <<texts, transData, segment, label, kwargs, frame, err, calls,
          lines, labels, offset, lkw, i, pc, args, result,
          age, fileTime, now, old, pres, maxPlev, atmo>>

----------------------------------------------------------------------------
(* Bounds of the model *)

MaxLen == 3        \* longest polyline
MaxOffset == 3     \* largest offset passed
MaxCalls == 2      \* label_line calls per run

Coords == {0, 1}
Points == Coords \X Coords

----------------------------------------------------------------------------
(* Keyword-argument mappings *)

NoKw == [k \in {} |-> 0]

Kw1(key, val) == [k \in {key} |-> val]

Merge(f, g) ==
    [k \in (DOMAIN f) \cup (DOMAIN g) |-> IF k \in DOMAIN f THEN f[k] ELSE g[k]]

\* kwargs.pop(key, default): the value
PopVal(kw, key, default) == IF key \in DOMAIN kw THEN kw[key] ELSE default

\* kwargs.pop(key, default): the mapping left
PopRest(kw, key) == [k \in (DOMAIN kw) \ {key} |-> kw[k]]

\* if key not in kwargs: kwargs[key] = val
SetDefault(kw, key, val) == IF key \in DOMAIN kw THEN kw ELSE Merge(kw, Kw1(key, val))

\* if (long not in kwargs) and (short not in kwargs): kwargs[short] = val
SetDefault2(kw, long, short, val) ==
    IF long \notin DOMAIN kw /\ short \notin DOMAIN kw
    THEN Merge(kw, Kw1(short, val)) ELSE kw

----------------------------------------------------------------------------
(* numpy indexing of an array of n rows *)

\* segment[idx, :] raises IndexError unless -n <= idx < n
InRange(n, idx) == -n <= idx /\ idx <= n - 1

\* a negative index counts from the end
Norm(n, idx) == IF idx < 0 THEN idx + n ELSE idx

\* segment[idx, :]
Row(seg, idx) == seg[Norm(Len(seg), idx) + 1]

----------------------------------------------------------------------------
(* Angles *)

\* degrees(atan2(dy, dx)) for dx, dy in {-1, 0, 1}
Atan2Deg(dy, dx) ==
    CASE dy = 0 /\ dx >= 0 -> 0
      [] dy > 0 /\ dx > 0 -> 45
      [] dy > 0 /\ dx = 0 -> 90
      [] dy > 0 /\ dx < 0 -> 135
      [] dy = 0 /\ dx < 0 -> 180
      [] dy < 0 /\ dx < 0 -> -135
      [] dy < 0 /\ dx = 0 -> -90
      [] dy < 0 /\ dx > 0 -> -45

\* (cos(ang), sin(ang)) up to a positive factor
Dir(ang) ==
    CASE ang = 0 -> <<1, 0>>
      [] ang = 45 -> <<1, 1>>
      [] ang = 90 -> <<0, 1>>
      [] ang = 135 -> <<-1, 1>>
      [] ang = 180 -> <<-1, 0>>
      [] ang = -135 -> <<-1, -1>>
      [] ang = -90 -> <<0, -1>>
      [] ang = -45 -> <<1, -1>>

\* The axis transforms of the model: the linear part of data -> screen.
Transforms == {"identity", "flipy", "rot90"}

\* the transform's action on a direction
Apply(tr, v) ==
    CASE tr = "identity" -> v
      [] tr = "flipy" -> <<v[1], -v[2]>>
      [] tr = "rot90" -> <<-v[2], v[1]>>

\* ax.transData.transform_angles((ang,), pt)[0]: the angle, at pt, of the
\* image of a short step from pt in direction ang (pt drops out of a
\* linear transform).
TransformAngles(tr, ang) ==
    LET t == Apply(tr, Dir(ang)) IN Atan2Deg(t[2], t[1])

----------------------------------------------------------------------------
(* label_line *)

\* ax.get_facecolor()
FaceColor == "white"

\* a slip: the last row taken as segment[-offset]
AnchorIndexNoMinusOne(end, off) == IF end = "bottom" THEN 0 + off ELSE -off

\* index of the anchor row: segment[0 + offset, :] or segment[-1 - offset, :]
AnchorIndex(end, off) == IF end = "bottom" THEN 0 + off ELSE -1 - off

\* a slip: ip = -offset for 'top'
TangentIndexNoMinusOne(end, off) == IF end = "bottom" THEN 1 + off ELSE -off

\* ip
TangentIndex(end, off) == IF end = "bottom" THEN 1 + off ELSE -1 - off

\* a slip: atan2(dx, dy)
SlopeSwapped(seg, ip) ==
    LET dx == Row(seg, ip)[1] - Row(seg, ip - 1)[1]
        dy == Row(seg, ip)[2] - Row(seg, ip - 1)[2]
    IN  Atan2Deg(dx, dy)

\* ang: degrees(atan2(dy, dx)) of segment[ip] - segment[ip-1]
Slope(seg, ip) ==
    LET dx == Row(seg, ip)[1] - Row(seg, ip - 1)[1]
        dy == Row(seg, ip)[2] - Row(seg, ip - 1)[2]
    IN  Atan2Deg(dy, dx)

\* a slip: the 180 degrees subtracted at both ends
EndAdjustBoth(end) == 180

\* if end == 'top': trans_angle -= 180
EndAdjust(end) == IF end = "top" THEN 180 ELSE 0

\* a slip: the END adjustment made outside the "if align:" branch
RotationAdjustAlways(align, end, ta) == (IF align THEN ta ELSE 0) - EndAdjust(end)

\* the rotation handed to ax.text, given the transformed angle
Rotation(align, end, ta) == IF align THEN ta - EndAdjust(end) ELSE 0

\* a slip: the slope computed before the "if align:" test
ReadsTangentAlways(align) == TRUE

\* whether segment[ip] and segment[ip-1] are read: the "if align:" branch
ReadsTangent(align) == align

\* the defaults set on the text-box keyword arguments
TextDefaults(kw) ==
    LET k1 == SetDefault2(kw, "horizontalalignment", "ha", "center")
        k2 == SetDefault2(k1, "verticalalignment", "va", "center")
        k3 == SetDefault(k2, "backgroundcolor", FaceColor)
        k4 == SetDefault(k3, "clip_on", TRUE)
        k5 == SetDefault(k4, "fontsize", "larger")
        k6 == SetDefault(k5, "fontweight", "bold")
    IN  SetDefault(k6, "zorder", 150)

\* One call label_line(ax, lbl, seg, **kw) on an axis with transform tr.
\* err: the exception raised ("none": returned); text: the ax.text call made;
\* frame: the locals; local: the function's own kwargs dict as it leaves it.
LabelLine(tr, lbl, seg, kw) ==
    LET align == PopVal(kw, "align", TRUE)
        kw1 == PopRest(kw, "align")
        end == PopVal(kw1, "end", "bottom")
        kw2 == PopRest(kw1, "end")
        off == PopVal(kw2, "offset", 0)
        kw3 == PopRest(kw2, "offset")
        n == Len(seg)
        a == AnchorIndex(end, off)
        ip == TangentIndex(end, off)
        fr0 == [align |-> align, end |-> end, offset |-> off]
    IN  IF end \notin {"bottom", "top"}
        THEN \* x, y and ip are never bound
             [err |-> "UnboundLocalError", frame |-> fr0, local |-> kw3]
        ELSE IF ~InRange(n, a)
        THEN [err |-> "IndexError", frame |-> fr0, local |-> kw3]
        ELSE IF ReadsTangent(align) /\ ~(InRange(n, ip) /\ InRange(n, ip - 1))
        THEN [err |-> "IndexError", frame |-> fr0, local |-> kw3]
        ELSE LET x == Row(seg, a)[1]
                 y == Row(seg, a)[2]
                 ang == Slope(seg, ip)
                 ta == IF align THEN TransformAngles(tr, ang) ELSE 0
                 rot == Rotation(align, end, ta)
                 kw4 == TextDefaults(kw3)
             IN  [err |-> "none",
                  frame |-> IF align
                            THEN [align |-> align, end |-> end, offset |-> off,
                                  ang |-> ang, trans |-> ta]
                            ELSE [align |-> align, end |-> end, offset |-> off],
                  local |-> kw4,
                  text |-> [x |-> x, y |-> y, s |-> lbl, rotation |-> rot,
                            kw |-> kw4]]

\* a slip: the mapping passed as one dict, which the callee then changes
KwAfterCallShared(kw, local) == local

\* What the caller's mapping is after label_line(..., **kwargs): the call
\* unpacks it into a fresh dict, so the pops and defaults inside never
\* reach it.
KwAfterCall(kw, local) == kw

----------------------------------------------------------------------------
(* The inputs of the model *)

Polylines == UNION {[1..n -> Points] : n \in 2..MaxLen}

AlignKw == {NoKw, Kw1("align", TRUE), Kw1("align", FALSE)}
\* "bottom" is the default; "middle" is a value the code does not know
EndKw == {NoKw, Kw1("end", "top"), Kw1("end", "middle")}
OffsetKw == {NoKw} \cup {Kw1("offset", k) : k \in 0..MaxOffset}
StyleKw == {NoKw, Kw1("ha", "left"),
            Merge(Kw1("horizontalalignment", "right"), Kw1("zorder", 200))}

CallerKwargs ==
    {Merge(Merge(a, e), Merge(o, st)) :
        a \in AlignKw, e \in EndKw, o \in OffsetKw, st \in StyleKw}

\* label_lines and fhr_list at rest
LinesIdle ==
    /\ lines = <<>> /\ labels = <<>> /\ offset = 0 /\ lkw = NoKw /\ i = 0
FhrIdle == args = [list |-> TRUE, v |-> <<>>] /\ result = <<>>
LineIdle ==
    /\ segment = <<>> /\ label = 0 /\ frame = NoKw /\ calls = 0

lineVars == <<segment, label, frame, calls>>
linesVars == <<lines, labels, offset, lkw, i>>
fhrVars == <<args, result>>
oldVars == <<age, fileTime, now, old>>
skewVars == <<pres, maxPlev, atmo>>
utilVars == <<oldVars, skewVars>>

\* old_enough and skewT.atmo_profiles at rest
OldIdle == age = 0 /\ fileTime = 0 /\ now = 0 /\ old = FALSE
SkewIdle == pres = <<>> /\ maxPlev = 0 /\ atmo = NoKw
UtilIdle == OldIdle /\ SkewIdle

----------------------------------------------------------------------------
(* Specification Spec: a caller makes up to MaxCalls calls of label_line    *)
(* with the same arguments on one axis.                                     *)

Init ==
    /\ texts = <<>>
    /\ transData \in Transforms
    /\ segment \in Polylines
    /\ label = 7
    /\ kwargs \in CallerKwargs
    /\ frame = NoKw
    /\ err = "none"
    /\ calls = 0
    /\ pc = "idle"
    /\ LinesIdle
    /\ FhrIdle
    /\ UtilIdle

CallLabelLine ==
    /\ calls < MaxCalls
    /\ LET r == LabelLine(transData, label, segment, kwargs)
       IN  /\ texts' = IF r.err = "none" THEN Append(texts, r.text) ELSE texts
           /\ err' = r.err
           /\ frame' = r.frame
           /\ kwargs' = KwAfterCall(kwargs, r.local)
    /\ calls' = calls + 1
    /\ UNCHANGED <<transData, segment, label, pc, linesVars, fhrVars, utilVars>>

Next == CallLabelLine

Spec == Init /\ [][Next]_vars

----------------------------------------------------------------------------
(* Claims about label_line, checked under Spec *)

\* the arguments of the calls, read off the caller's mapping
ArgAlign == IF "align" \in DOMAIN kwargs THEN kwargs["align"] ELSE TRUE
ArgEnd == IF "end" \in DOMAIN kwargs THEN kwargs["end"] ELSE "bottom"
ArgOffset == IF "offset" \in DOMAIN kwargs THEN kwargs["offset"] ELSE 0
NPoints == Len(segment)
StartOrEnd == ArgEnd \in {"bottom", "top"}
\* the offset leaves the anchor and its tangent neighbour inside the polyline
OffsetInRange == ArgOffset + 1 <= NPoints - 1
\* Python's polyline[p]
Poly(p) == segment[p + 1]
\* direction of travel into Poly(p) from the point before it, in degrees
TravelAngle(p) ==
    Atan2Deg(Poly(p)[2] - Poly(p - 1)[2], Poly(p)[1] - Poly(p - 1)[1])
Drawn == calls > 0 /\ Len(texts) = calls
Flat01 == <<(<<0, 0>>), (<<1, 0>>)>>
Diag01 == <<(<<0, 0>>), (<<1, 1>>)>>

\* C1: for an in-range offset k the text is drawn, with the coordinates of
\* polyline[k] for end='bottom' and of polyline[n-1-k] for end='top'.
C1_AnchorOnPoint ==
    (calls > 0 /\ StartOrEnd /\ OffsetInRange) =>
        /\ Len(texts) = calls
        /\ \A t \in DOMAIN texts :
              /\ ArgEnd = "bottom" =>
                    <<texts[t].x, texts[t].y>> = Poly(ArgOffset)
              /\ ArgEnd = "top" =>
                    <<texts[t].x, texts[t].y>> = Poly(NPoints - 1 - ArgOffset)

C1_Witness ==
    /\ Drawn /\ ArgEnd = "top" /\ ArgOffset = 1 /\ NPoints = 3
    /\ Poly(1) # Poly(0) /\ Poly(1) # Poly(2)
    /\ <<texts[1].x, texts[1].y>> = Poly(1)

\* C2: with align, the identity transform and end='bottom', the angle is
\* the direction of travel from polyline[k] to polyline[k+1]: 45 degrees on
\* [(0,0),(1,1)] and 0 degrees on [(0,0),(1,0)].
C2_StartAngle ==
    (calls > 0 /\ ArgAlign /\ transData = "identity" /\ ArgEnd = "bottom"
       /\ OffsetInRange) =>
        /\ Len(texts) = calls
        /\ frame.ang = TravelAngle(ArgOffset + 1)
        /\ \A t \in DOMAIN texts :
              /\ texts[t].rotation = TravelAngle(ArgOffset + 1)
              /\ (segment = Diag01 /\ ArgOffset = 0) => texts[t].rotation = 45
              /\ (segment = Flat01 /\ ArgOffset = 0) => texts[t].rotation = 0

C2_Witness ==
    /\ Drawn /\ ArgAlign /\ transData = "identity" /\ ArgEnd = "bottom"
    /\ segment = Diag01 /\ ArgOffset = 0 /\ texts[1].rotation = 45

\* C3 as stated: on [(0,0),(1,0)] with align, the identity transform and
\* end='top', offset 0, the angle is 180 degrees before the END adjustment
\* and the rotation handed to the text call is 0.
C3_Original ==
    (calls > 0 /\ ArgAlign /\ transData = "identity" /\ ArgEnd = "top"
       /\ ArgOffset = 0 /\ segment = Flat01) =>
        /\ Len(texts) = calls
        /\ frame.ang = 180
        /\ \A t \in DOMAIN texts : texts[t].rotation = 0

\* C3 amended: for end='top' the tangent is polyline[n-1-k] - polyline[n-2-k],
\* the same direction of travel as for 'bottom'; on [(0,0),(1,0)] the angle
\* is 0 degrees before the END adjustment and -180 after it.
C3_EndAngle ==
    (calls > 0 /\ ArgAlign /\ transData = "identity" /\ ArgEnd = "top"
       /\ OffsetInRange) =>
        /\ Len(texts) = calls
        /\ frame.ang = TravelAngle(NPoints - 1 - ArgOffset)
        /\ \A t \in DOMAIN texts :
              /\ texts[t].rotation = TravelAngle(NPoints - 1 - ArgOffset) - 180
              /\ (segment = Flat01 /\ ArgOffset = 0) =>
                    /\ frame.ang = 0
                    /\ frame.trans = 0
                    /\ texts[t].rotation = -180

C3_Witness ==
    /\ Drawn /\ ArgAlign /\ transData = "identity" /\ ArgEnd = "top"
    /\ ArgOffset = 0 /\ segment = Flat01 /\ texts[1].rotation = -180

\* the tangent angle of the call in data space
DataAngle ==
    IF ArgEnd = "bottom" THEN TravelAngle(ArgOffset + 1)
    ELSE TravelAngle(NPoints - 1 - ArgOffset)

\* C4: with align, the rotation is the transformed tangent angle minus 180
\* for end='top' and the transformed tangent angle itself for end='bottom'.
C4_EndAdjustment ==
    (calls > 0 /\ ArgAlign /\ StartOrEnd /\ OffsetInRange) =>
        LET ta == TransformAngles(transData, DataAngle)
        IN  /\ Len(texts) = calls
            /\ frame.trans = ta
            /\ \A t \in DOMAIN texts :
                  /\ ArgEnd = "top" =>
                        /\ texts[t].rotation = ta - 180
                        /\ (texts[t].rotation - (ta - 180)) % 360 = 0
                  /\ ArgEnd = "bottom" => texts[t].rotation = ta

C4_Witness ==
    /\ Drawn /\ ArgAlign /\ ArgEnd = "top" /\ transData = "rot90"
    /\ frame.trans # frame.ang
    /\ texts[1].rotation = frame.trans - 180

\* C5: with align=false every text is drawn with rotation 0, whatever the
\* polyline, the end and the offset.
C5_NoAlignNoRotation ==
    (calls > 0 /\ ~ArgAlign /\ StartOrEnd) =>
        /\ ArgOffset <= NPoints - 1 => Len(texts) = calls
        /\ "ang" \notin DOMAIN frame
        /\ \A t \in DOMAIN texts : texts[t].rotation = 0

C5_Witness ==
    /\ Drawn /\ ~ArgAlign /\ ArgEnd = "top" /\ ArgOffset = 1 /\ NPoints = 3
    /\ DataAngle = 135 /\ texts[1].rotation = 0

\* C6 as stated: whenever offset + 1 > n - 1 (equally n - 2 - offset < 0)
\* the call fails with IndexError and draws nothing, for both values of
\* align.
C6_Original ==
    (calls > 0 /\ StartOrEnd /\ ~OffsetInRange) =>
        err = "IndexError" /\ texts = <<>>

\* C6 amended: with align=true the call fails with IndexError and draws
\* nothing exactly when offset > n - 2; with align=false the tangent
\* neighbour is never read, the call fails exactly when offset > n - 1, and
\* at offset = n - 1 it draws the label, unrotated, on polyline[n-1]
\* ('bottom') or polyline[0] ('top').
C6_IndexError ==
    (calls > 0 /\ StartOrEnd) =>
        LET out == IF ArgAlign THEN ArgOffset > NPoints - 2
                   ELSE ArgOffset > NPoints - 1
        IN  /\ out => (err = "IndexError" /\ texts = <<>>)
            /\ ~out => (err = "none" /\ Len(texts) = calls)
            /\ (~ArgAlign /\ ArgOffset = NPoints - 1) =>
                  \A t \in DOMAIN texts :
                     /\ texts[t].rotation = 0
                     /\ <<texts[t].x, texts[t].y>> =
                           IF ArgEnd = "bottom" THEN Poly(NPoints - 1)
                           ELSE Poly(0)

C6_Witness ==
    /\ calls > 0 /\ ArgAlign /\ ArgEnd = "top" /\ ArgOffset = NPoints - 1
    /\ err = "IndexError" /\ texts = <<>>

----------------------------------------------------------------------------
(* label_lines *)

\* lines.get_color()[0]
LineColor == "black"

\* A label is a decimal number held in tenths: 4 is 0.4, -15 is -1.5.
\* int(v): the integer part, truncated toward zero.
IntOf(v) == IF v >= 0 THEN v \div 10 ELSE -((-v) \div 10)

\* a slip: the label of the next polyline
LabelIndexNext(lbls, j) == j + 1

\* a slip: the label index wrapped around a short label list
LabelIndexWrap(lbls, j) == IF Len(lbls) = 0 THEN j ELSE j % Len(lbls)

\* the index of the label looked up for the polyline of index j: labels[i]
LabelIndex(lbls, j) == j

\* a slip: the labels drawn so far removed when the loop raises
TextsOnRaiseRolledBack(txts) == <<>>

\* ax.texts when an exception leaves the loop: nothing catches it and
\* nothing is undone
TextsOnRaise(txts) == txts

\* The keyword arguments of the call label_line(ax, label, line, align=True,
\* offset=offset, **kwargs); a key given twice is a TypeError.
CallKw(off, kw) ==
    Merge(Merge(Kw1("align", TRUE), Kw1("offset", off)), kw)

LinePool == {<<(<<0, 0>>), (<<1, 1>>)>>, <<(<<1, 0>>), (<<0, 0>>), (<<0, 1>>)>>}
LabelVals == {-15, 4, 20}
MaxLines == 3
MaxLabels == 3
LinesKw == {NoKw, Kw1("color", "red"), Kw1("end", "top"), Kw1("end", "middle"),
            Kw1("align", FALSE)}

SeqsUpTo(S, n) == UNION {[1..m -> S] : m \in 0..n}

\* Specification SpecLines: one call of label_lines, one loop iteration per
\* step.
InitLines ==
    /\ texts = <<>>
    /\ transData = "identity"
    /\ lines \in SeqsUpTo(LinePool, MaxLines)
    /\ labels \in SeqsUpTo(LabelVals, MaxLabels)
    /\ offset \in 0..MaxOffset
    /\ kwargs \in LinesKw
    /\ lkw = NoKw
    /\ i = 0
    /\ pc = "start"
    /\ err = "none"
    /\ LineIdle
    /\ FhrIdle
    /\ UtilIdle

\* if 'color' not in kwargs: kwargs['color'] = lines.get_color()[0]
LinesEnter ==
    /\ pc = "start"
    /\ lkw' = SetDefault(kwargs, "color", LineColor)
    /\ i' = 0
    /\ pc' = "loop"
    /\ UNCHANGED <<texts, transData, kwargs, err, lineVars, lines, labels,
                   offset, fhrVars, utilVars>>

\* one iteration of "for i, line in enumerate(lines.get_segments())"
LinesIter ==
    /\ pc = "loop"
    /\ i < Len(lines)
    /\ LET idx == LabelIndex(labels, i)
       IN  IF idx >= Len(labels)
           THEN \* labels[i]
                /\ err' = "IndexError"
                /\ pc' = "raised"
                /\ texts' = TextsOnRaise(texts)
                /\ UNCHANGED <<frame, calls, i, lkw>>
           ELSE IF {"align", "offset"} \cap DOMAIN lkw # {}
           THEN \* label_line() got multiple values for keyword argument
                /\ err' = "TypeError"
                /\ pc' = "raised"
                /\ texts' = TextsOnRaise(texts)
                /\ UNCHANGED <<frame, calls, i, lkw>>
           ELSE LET r == LabelLine(transData, IntOf(labels[idx + 1]),
                                   lines[i + 1], CallKw(offset, lkw))
                IN  /\ calls' = calls + 1
                    /\ frame' = r.frame
                    /\ lkw' = KwAfterCall(lkw, r.local)
                    /\ err' = r.err
                    /\ IF r.err = "none"
                       THEN /\ texts' = Append(texts, r.text)
                            /\ i' = i + 1
                            /\ pc' = pc
                       ELSE /\ pc' = "raised"
                            /\ texts' = TextsOnRaise(texts)
                            /\ UNCHANGED i
    /\ UNCHANGED <<transData, kwargs, segment, label, lines, labels, offset,
                   fhrVars, utilVars>>

\* the loop is exhausted: label_lines returns
LinesReturn ==
    /\ pc = "loop"
    /\ i = Len(lines)
    /\ pc' = "done"
    /\ UNCHANGED <<texts, transData, kwargs, err, lineVars, linesVars, fhrVars, utilVars>>

NextLines == LinesEnter \/ LinesIter \/ LinesReturn

SpecLines == InitLines /\ [][NextLines]_vars

----------------------------------------------------------------------------
(* Claims about label_lines, checked under SpecLines *)

Terminal == pc \in {"done", "raised"}
NLines == Len(lines)
NLabels == Len(labels)
LinesEnd == IF "end" \in DOMAIN kwargs THEN kwargs["end"] ELSE "bottom"
\* the anchor of polyline j (1-based) for the call's end and offset
LineAnchor(j) ==
    IF LinesEnd = "bottom" THEN lines[j][offset + 1]
    ELSE lines[j][Len(lines[j]) - offset]
\* the aligned rotation of polyline j under the identity transform
LineRotation(j) ==
    LET p == IF LinesEnd = "bottom" THEN offset + 2 ELSE Len(lines[j]) - offset
        a == Atan2Deg(lines[j][p][2] - lines[j][p - 1][2],
                      lines[j][p][1] - lines[j][p - 1][1])
    IN  IF LinesEnd = "bottom" THEN a ELSE a - 180
\* no placement of the call raises
PlacementsSucceed ==
    /\ "align" \notin DOMAIN kwargs
    /\ LinesEnd \in {"bottom", "top"}
    /\ \A j \in 1..NLines : offset + 1 <= Len(lines[j]) - 1

C8_TooFewLabels ==
    (Terminal /\ NLabels < NLines) =>
        /\ pc = "raised"
        /\ err # "none"
        /\ Len(texts) <= NLabels
        /\ \A j \in DOMAIN texts : texts[j].s = IntOf(labels[j])
        /\ Len(texts) = NLabels => (err = "IndexError" /\ calls = NLabels)

C8_Witness ==
    /\ pc = "raised" /\ NLines = 3 /\ NLabels = 2
    /\ Len(texts) = 2 /\ err = "IndexError" /\ calls = 2

\* C13: when the call fails on the label lookup (m labels, n > m
\* polylines), then at the raise exactly the first m polylines carry their
\* label, in order, the others none; and no step ever removes or changes a
\* text already drawn.
C13_PartialLabelling ==
    [][/\ Len(texts') >= Len(texts)
       /\ SubSeq(texts', 1, Len(texts)) = texts
       /\ (pc = "loop" /\ pc' = "raised" /\ err' = "IndexError"
             /\ calls' = calls) =>
             /\ NLabels < NLines
             /\ i = NLabels /\ i' = i
             /\ Len(texts') = NLabels
             /\ \A j \in 1..NLabels :
                   /\ texts'[j].s = IntOf(labels[j])
                   /\ <<texts'[j].x, texts'[j].y>> = LineAnchor(j)]_vars

C13_Witness ==
    /\ pc = "raised" /\ err = "IndexError" /\ calls = Len(texts)
    /\ NLines = 3 /\ NLabels = 1 /\ Len(texts) = 1 /\ i = 1
    /\ labels[1] = -15 /\ texts[1].s = -1
    /\ <<texts[1].x, texts[1].y>> = LineAnchor(1)

----------------------------------------------------------------------------
(* fhr_list *)

MaxHour == 3       \* largest integer in the argument list
MaxArgs == 4       \* longest argument list

\* the integers argparse hands over
Hours == -2..MaxHour

\* a slip: the stop value included
PyRangeInclusive(start, stop, step) ==
    LET len == IF step > 0
               THEN (IF stop >= start THEN (stop - start) \div step + 1 ELSE 0)
               ELSE (IF start >= stop THEN (start - stop) \div (-step) + 1 ELSE 0)
    IN  [k \in 1..len |-> start + (k - 1) * step]

\* list(range(start, stop, step)) for step # 0
PyRange(start, stop, step) ==
    LET len == IF step > 0
               THEN (IF start < stop
                     THEN (stop - start + step - 1) \div step ELSE 0)
               ELSE (IF stop < start
                     THEN (start - stop + (-step) - 1) \div (-step) ELSE 0)
    IN  [k \in 1..len |-> start + (k - 1) * step]

\* fhr_list(a): err is the exception raised ("none": returned), out the
\* list returned. a.list tells a list from any other value.
FhrList(a) ==
    LET lst == IF a.list THEN a.v ELSE <<a.v>>
        arg_len == Len(lst)
    IN  IF arg_len = 2
        THEN [err |-> "none", out |-> PyRange(lst[1], lst[2], 1)]
        ELSE IF arg_len = 3
        THEN IF lst[3] = 0
             THEN \* range() arg 3 must not be zero
                  [err |-> "ValueError", out |-> <<>>]
             ELSE [err |-> "none", out |-> PyRange(lst[1], lst[2], lst[3])]
        ELSE [err |-> "none", out |-> lst]

\* the argument is a single integer or a list of integers
FhrArgs(a) ==
    \/ \E h \in Hours : a = [list |-> FALSE, v |-> h]
    \/ \E l \in SeqsUpTo(Hours, MaxArgs) : a = [list |-> TRUE, v |-> l]

\* Specification SpecFhr: one call of fhr_list.
InitFhr ==
    /\ FhrArgs(args)
    /\ result = <<>>
    /\ pc = "start"
    /\ err = "none"
    /\ texts = <<>> /\ transData = "identity" /\ kwargs = NoKw
    /\ LineIdle
    /\ LinesIdle
    /\ UtilIdle

CallFhrList ==
    /\ pc = "start"
    /\ LET r == FhrList(args)
       IN  /\ err' = r.err
           /\ result' = r.out
           /\ pc' = IF r.err = "none" THEN "done" ELSE "raised"
    /\ UNCHANGED <<args, texts, transData, kwargs, lineVars, linesVars,
                   utilVars>>

NextFhr == CallFhrList

SpecFhr == InitFhr /\ [][NextFhr]_vars

----------------------------------------------------------------------------
(* Claims about fhr_list, checked under SpecFhr *)

\* out is start, start+inc, ... up to but excluding stop
IsProgression(out, start, stop, inc) ==
    /\ \A k \in DOMAIN out :
          /\ out[k] = start + (k - 1) * inc
          /\ inc > 0 => out[k] < stop
          /\ inc < 0 => out[k] > stop
    /\ inc > 0 => start + Len(out) * inc >= stop
    /\ inc < 0 => start + Len(out) * inc <= stop

\* what the claim says of every argument but a list [start, stop, inc]
FhrOtherCases ==
    /\ ~args.list => (pc = "done" /\ result = <<args.v>>)
    /\ (args.list /\ Len(args.v) = 1) => (pc = "done" /\ result = args.v)
    /\ (args.list /\ Len(args.v) = 2) =>
          /\ pc = "done"
          /\ IsProgression(result, args.v[1], args.v[2], 1)
    /\ (args.list /\ Len(args.v) > 3) => (pc = "done" /\ result = args.v)

\* C10 as stated: every list [start, stop, inc] yields start, start+inc, ...
\* up to but excluding stop.
C10_Original ==
    Terminal =>
        /\ FhrOtherCases
        /\ (args.list /\ Len(args.v) = 3) =>
              /\ pc = "done"
              /\ IsProgression(result, args.v[1], args.v[2], args.v[3])

\* C10 amended: as stated, but a list [start, stop, inc] yields start,
\* start+inc, ... up to but excluding stop only for inc # 0 (counting down
\* for inc < 0); for inc = 0 the call raises ValueError and returns nothing.
C10_ByLength ==
    Terminal =>
        /\ FhrOtherCases
        /\ (args.list /\ Len(args.v) = 3 /\ args.v[3] # 0) =>
              /\ pc = "done"
              /\ IsProgression(result, args.v[1], args.v[2], args.v[3])
        /\ (args.list /\ Len(args.v) = 3 /\ args.v[3] = 0) =>
              pc = "raised" /\ err = "ValueError" /\ result = <<>>

C10_Witness ==
    /\ pc = "done" /\ args.list /\ args.v = <<0, 3, 2>> /\ result = <<0, 2>>

----------------------------------------------------------------------------
(* old_enough *)

MaxTime == 6       \* latest clock reading, in minutes
MaxAge == 4        \* largest age asked for, in minutes

\* old_enough(age, file_path): max_age = now - timedelta(minutes=age);
\* return file_time < max_age
OldEnough(a, file_time, t) ==
    LET max_age == t - a
    IN  file_time < max_age

\* Specification SpecOld: one call of old_enough on a file created at or
\* before the clock reading.
InitOld ==
    /\ now \in 0..MaxTime
    /\ fileTime \in 0..now
    /\ age \in 0..MaxAge
    /\ old = FALSE
    /\ pc = "start"
    /\ err = "none"
    /\ texts = <<>> /\ transData = "identity" /\ kwargs = NoKw
    /\ LineIdle
    /\ LinesIdle
    /\ FhrIdle
    /\ SkewIdle

CallOldEnough ==
    /\ pc = "start"
    /\ old' = OldEnough(age, fileTime, now)
    /\ pc' = "done"
    /\ UNCHANGED <<age, fileTime, now, err, texts, transData, kwargs,
                   lineVars, linesVars, fhrVars, skewVars>>

NextOld == CallOldEnough

SpecOld == InitOld /\ [][NextOld]_vars

\* C11: old_enough returns true exactly when the file is at least age
\* minutes old, now - file_time >= age, the boundary included.
C11_AtLeastAge ==
    pc = "done" => (old <=> (now - fileTime >= age))

----------------------------------------------------------------------------
(* skewT.atmo_profiles *)

MaxPres == 6       \* highest pressure of a level, in hPa

\* the variables of atmo_vars, 'pres' first
AtmoVars == {"pres", "gh", "temp", "sphum", "u", "v", "dewpt"}

\* the levels of S as a profile that decreases with the level index
RECURSIVE DecSeq(_)
DecSeq(S) ==
    IF S = {} THEN <<>>
    ELSE LET m == CHOOSE x \in S : \A y \in S : y <= x
         IN  <<m>> \o DecSeq(S \ {m})

\* tmp.to('hecto-Pa') of a profile in Pa
ToHectoPa(prof) == [l \in DOMAIN prof |-> prof[l] \div 100]

\* self.values(short_name=var), transformed: the pressure profile in hPa,
\* and for every other variable one value per level, here the level number
Values(var, prof) ==
    IF var = "pres" THEN ToHectoPa(prof) ELSE [l \in DOMAIN prof |-> l]

\* np.sum(np.where(tmp >= max_plev)): np.where gives the (0-based) indices
\* of the levels that pass, and np.sum adds those indices up
RECURSIVE SumWhere(_, _, _)
SumWhere(tmp, maxp, l) ==
    IF l > Len(tmp) THEN 0
    ELSE (IF tmp[l] >= maxp THEN l - 1 ELSE 0) + SumWhere(tmp, maxp, l + 1)

\* top = np.sum(np.where(tmp >= self.max_plev)) - 1
Top(tmp, maxp) == SumWhere(tmp, maxp, 1) - 1

\* tmp[:top]: a negative stop counts from the end, and the stop is clipped
\* to the length
SliceTo(tmp, top) ==
    LET n == Len(tmp)
        stop == IF top < 0 THEN (IF top + n < 0 THEN 0 ELSE top + n)
                ELSE (IF top > n THEN n ELSE top)
    IN  SubSeq(tmp, 1, stop)

\* atmo_profiles(): top is set once, on 'pres', and cuts every profile
AtmoProfiles(prof, maxp) ==
    LET top == Top(Values("pres", prof), maxp)
    IN  [var \in AtmoVars |-> SliceTo(Values(var, prof), top)]

\* Specification SpecSkew: one call of atmo_profiles on a pressure profile
\* that decreases with the level index.
InitSkew ==
    /\ \E S \in SUBSET (1..MaxPres) : pres = [l \in DOMAIN DecSeq(S) |-> 100 * DecSeq(S)[l]]
    /\ maxPlev \in 0..(MaxPres + 1)
    /\ atmo = NoKw
    /\ pc = "start"
    /\ err = "none"
    /\ texts = <<>> /\ transData = "identity" /\ kwargs = NoKw
    /\ LineIdle
    /\ LinesIdle
    /\ FhrIdle
    /\ OldIdle

CallAtmoProfiles ==
    /\ pc = "start"
    /\ atmo' = AtmoProfiles(pres, maxPlev)
    /\ pc' = "done"
    /\ UNCHANGED <<pres, maxPlev, err, texts, transData, kwargs,
                   lineVars, linesVars, fhrVars, oldVars>>

NextSkew == CallAtmoProfiles

SpecSkew == InitSkew /\ [][NextSkew]_vars

\* the number of levels whose pressure, in hPa, is at least max_plev
LevelsKept == Cardinality({l \in DOMAIN pres : pres[l] >= 100 * maxPlev})

\* C12: every returned profile holds exactly the levels whose pressure is
\* at least max_plev: none below it, none of them dropped (the whole
\* profile for max_plev = 0).
C12_UpToMaxPlev ==
    pc = "done" =>
        \A var \in AtmoVars :
           /\ Len(atmo[var]) = LevelsKept
           /\ \A l \in DOMAIN atmo[var] : atmo[var][l] = Values(var, pres)[l]
           /\ maxPlev = 0 => Len(atmo[var]) = Len(pres)

====
